---- MODULE Spec2Model ----
(***************************************************************************)
(* Model of the Anthropic provider plugin: the API client                  *)
(* (AnthropicAPIClient) and the two versions of AnthropicProvider found in *)
(* the sources.  Version "seeded" seeds the registry synchronously from    *)
(* the known-model list and never lists models remotely; version           *)
(* "discovering" lists models remotely, in the background at construction  *)
(* and awaited in configure, with a three-model fallback.                  *)
(*                                                                         *)
(* Every await on the network is a suspend point: the call is split into   *)
(* the step that sends the request and the step that resumes on the        *)
(* response.  `last` records the call that took the most recent step and   *)
(* what it returned or raised.                                             *)
(***************************************************************************)
EXTENDS Naturals, Sequences, FiniteSets, TLC

VARIABLES variant, config, apiClient, discoveredModels, handles, pending,
          requests, last

vars == <<variant, config, apiClient, discoveredModels, handles, pending,
          requests, last>>

(* ------------------------------ bounds -------------------------------- *)

\* Outbound requests issued in one behaviour.
MaxRequests == 3

\* Generation handles kept alive at once.
MaxHandles == 1

\* Generation requests issued in one behaviour of GenSpec.
MaxGenRequests == 2

(* ----------------------------- constants ------------------------------ *)

Variants == {"seeded", "discovering"}

\* `undefined` for this.apiClient / this.config, and a missing (falsy) key.
NoClient == "undefined"
NoConfig == "undefined"
NoKey == ""

\* process.env.ANTHROPIC_API_KEY, and the keys a caller passes to configure.
EnvKeys == {NoKey, "env-key"}
ConfigKeys == {NoKey, "cfg-key"}

knownModels ==
    {"claude-3-5-sonnet-latest", "claude-3-5-haiku-latest",
     "claude-3-opus-latest", "claude-3-5-sonnet-20241022",
     "claude-3-5-sonnet-20240620", "claude-3-5-haiku-20241022",
     "claude-3-opus-20240229", "claude-3-sonnet-20240229",
     "claude-3-haiku-20240307", "claude-2.1", "claude-2.0"}

fallbackModels ==
    {"claude-3-5-sonnet-latest", "claude-3-5-haiku-latest",
     "claude-3-opus-latest"}

\* Ids the remote listing may return: one known id outside the fallback
\* list and one id the provider has never heard of.
ApiIds == {"claude-2.1", "claude-opus-4"}

\* Ids callers ask about.
RequestIds == {"claude-3-5-sonnet-latest", "claude-2.1", "claude-opus-4"}

(* ----------------------------- responses ------------------------------ *)

\* What GET /models resolves to.  kind "error": network failure or non-2xx
\* status (axios rejects).  kind "ok": a 2xx body whose data list holds the
\* entries `ids`; `malformed` says the list breaks after those entries (a
\* null entry, or a data field that is no array), so iterating it throws a
\* TypeError.  ids = {} and not malformed is the empty (or missing) list.
ListingResponses ==
    {[kind |-> "error", ids |-> {}, malformed |-> FALSE]}
    \cup [kind : {"ok"}, ids : SUBSET ApiIds, malformed : BOOLEAN]

\* What POST /messages resolves to.  kind "error": transport failure.
\* kind "nocontent": a 2xx response without a body or without a content
\* field.  kind "ok": a 2xx body with the content segments `content`
\* (their texts, in the order of the response).
GenerationResponses ==
    {[kind |-> "error", content |-> <<>>],
     [kind |-> "nocontent", content |-> <<>>]}
    \cup [kind : {"ok"},
          content : {<<>>, <<"ab">>, <<"ab", "cd">>, <<"cd", "ab", "ef">>}]

\* The options of a generation call: `given` says the caller passed a
\* systemPrompt at all; an absent one and an empty one are both falsy.
NoOptions == [given |-> FALSE, systemPrompt |-> ""]

Options == {NoOptions, [given |-> TRUE, systemPrompt |-> ""],
            [given |-> TRUE, systemPrompt |-> "S"]}

Prompts == {"hello", ""}

NoResponse == [kind |-> "none", ids |-> {}, malformed |-> FALSE]

(* ------------------------------ registry ------------------------------ *)

\* new Map(): the registry maps a model id to the origin of its descriptor.
EmptyMap == [id \in {} |-> "known"]

\* Map.set for every id of `ids`: inserts or overwrites, removes nothing.
setEach(map, ids, tag) ==
    [id \in (DOMAIN map) \cup ids |-> IF id \in ids THEN tag ELSE map[id]]

initializeKnownClaudeModels(map) == setEach(map, knownModels, "known")

initializeFallbackModels(map) == setEach(map, fallbackModels, "fallback")

supportsTextToTextModel(modelId) == modelId \in DOMAIN discoveredModels

(* --------------------------- call records ----------------------------- *)

\* A call suspended on its one outbound request.  `id` is the ordinal of
\* the request, `origin` the caller of discoverModels, `arg` the key the
\* configure call was given, `model` the model id of a generation request,
\* `posts` the number of POSTs the call has issued.  A generation call
\* also keeps the prompt and options it was given and the message list of
\* the request it sent.
Call(id, op, origin, arg, model) ==
    [id |-> id, op |-> op, origin |-> origin, arg |-> arg, model |-> model,
     posts |-> IF op = "generateText" THEN 1 ELSE 0,
     prompt |-> "", options |-> NoOptions, messages |-> <<>>]

\* What the call that took the latest step returned ("pending" while it
\* is suspended) or raised, and the response it resumed on.
Ret(id, op, arg, result, resp, text) ==
    [id |-> id, op |-> op, arg |-> arg, result |-> result, resp |-> resp,
     text |-> text]

Sent == requests.models + requests.messages

CanSend == Sent < MaxRequests

PendingIds == {p.id : p \in pending}

(* --------------------------- AnthropicAPIClient ----------------------- *)

\* testConnection whose catch block answers true.
testConnection_TrueInCatch(resp) == "true"

\* testConnection: true when the listing request resolves, false when it
\* rejects; never raises.
testConnection(resp) == IF resp.kind = "error" THEN "false" ELSE "true"

\* getAvailableModels: response.data.data, or a raised Error when the
\* request rejects.
getAvailableModels(resp) ==
    IF resp.kind = "error"
    THEN [raised |-> TRUE, ids |-> {}, malformed |-> FALSE]
    ELSE [raised |-> FALSE, ids |-> resp.ids, malformed |-> resp.malformed]

\* generateText pushing the user message before the system message.
generateTextRequest_UserFirst(model, prompt, options) ==
    [model |-> model,
     messages |->
        <<[role |-> "user", content |-> prompt]>> \o
        (IF options.given /\ options.systemPrompt # ""
         THEN <<[role |-> "system", content |-> options.systemPrompt]>>
         ELSE <<>>)]

\* generateText up to the await: the request it posts.  The system
\* message is pushed when options.systemPrompt is truthy, then the user
\* message.
generateTextRequest(model, prompt, options) ==
    [model |-> model,
     messages |->
        (IF options.given /\ options.systemPrompt # ""
         THEN <<[role |-> "system", content |-> options.systemPrompt]>>
         ELSE <<>>) \o
        <<[role |-> "user", content |-> prompt]>>]

RECURSIVE join_Comma(_)
\* join() with its default separator.
join_Comma(content) ==
    IF content = <<>> THEN ""
    ELSE IF Len(content) = 1 THEN Head(content)
    ELSE Head(content) \o "," \o join_Comma(Tail(content))

RECURSIVE join(_)
\* content.map(part => part.text).join('')
join(content) ==
    IF content = <<>> THEN "" ELSE Head(content) \o join(Tail(content))

\* generateText with a retry: a rejected request is sent once more.
generateTextResume_Retry(p, resp) ==
    IF resp.kind = "error" /\ p.posts = 1
    THEN [pending |-> (pending \ {p}) \cup {[p EXCEPT !.posts = 2]},
          requests |-> [requests EXCEPT !.messages = @ + 1],
          last |-> Ret(p.id, "generate", p.model, "pending", resp, "")]
    ELSE [pending |-> pending \ {p},
          requests |-> requests,
          last |-> IF resp.kind = "error"
                   THEN Ret(p.id, "generate", p.model, "TransportError", resp, "")
                   ELSE IF resp.kind = "nocontent" \/ Len(resp.content) = 0
                   THEN Ret(p.id, "generate", p.model, "EmptyResponseError",
                            resp, "")
                   ELSE Ret(p.id, "generate", p.model, "returned", resp,
                            join(resp.content))]

\* generateText without the check for missing or empty content.
generateTextResume_NoEmptyCheck(p, resp) ==
    [pending |-> pending \ {p},
     requests |-> requests,
     last |-> IF resp.kind = "error"
              THEN Ret(p.id, "generate", p.model, "TransportError", resp, "")
              ELSE Ret(p.id, "generate", p.model, "returned", resp,
                       join(resp.content))]

\* generateText after the await: the call `p` resumes on `resp`.  A
\* rejected request propagates; a body without content segments raises;
\* otherwise the segments' texts are joined.  The call ends in each case.
generateTextResume(p, resp) ==
    [pending |-> pending \ {p},
     requests |-> requests,
     last |-> IF resp.kind = "error"
              THEN Ret(p.id, "generate", p.model, "TransportError", resp, "")
              ELSE IF resp.kind = "nocontent" \/ Len(resp.content) = 0
              THEN Ret(p.id, "generate", p.model, "EmptyResponseError", resp, "")
              ELSE Ret(p.id, "generate", p.model, "returned", resp,
                       join(resp.content))]

(* ---------------------------- AnthropicProvider ----------------------- *)

\* The constructor of the seeded version, as the state it leaves.
constructorSeeded(envKey) ==
    IF envKey = NoKey
    THEN [config |-> NoConfig, apiClient |-> NoClient, models |-> EmptyMap,
          pending |-> {}, requests |-> [models |-> 0, messages |-> 0]]
    ELSE [config |-> envKey, apiClient |-> envKey,
          models |-> initializeKnownClaudeModels(EmptyMap),
          pending |-> {}, requests |-> [models |-> 0, messages |-> 0]]

\* The constructor of the discovering version: with a key it starts
\* discoverModels, which suspends on GET /models; the registry stays as
\* new Map() left it.
constructorDiscovering(envKey) ==
    IF envKey = NoKey
    THEN [config |-> NoConfig, apiClient |-> NoClient, models |-> EmptyMap,
          pending |-> {}, requests |-> [models |-> 0, messages |-> 0]]
    ELSE [config |-> envKey, apiClient |-> envKey, models |-> EmptyMap,
          pending |-> {Call(1, "discoverModels", "constructor", envKey, "")},
          requests |-> [models |-> 1, messages |-> 0]]

\* discoverModels without its try/catch: a failure leaves the registry as
\* far as the loop got and raises.
discoverModels_NoCatch(map, resp) ==
    LET got == getAvailableModels(resp) IN
    IF got.raised
    THEN [models |-> map, raised |-> TRUE]
    ELSE IF got.ids = {} /\ ~got.malformed
    THEN [models |-> initializeFallbackModels(map), raised |-> FALSE]
    ELSE IF got.malformed
    THEN [models |-> setEach(map, got.ids, "api"), raised |-> TRUE]
    ELSE [models |-> setEach(map, got.ids, "api"), raised |-> FALSE]

\* discoverModels that clears the registry before it repopulates it.
discoverModels_Clear(map, resp) ==
    LET got == getAvailableModels(resp) IN
    IF got.raised
    THEN [models |-> initializeFallbackModels(EmptyMap), raised |-> FALSE]
    ELSE IF got.ids = {} /\ ~got.malformed
    THEN [models |-> initializeFallbackModels(EmptyMap), raised |-> FALSE]
    ELSE IF got.malformed
    THEN [models |-> initializeFallbackModels(setEach(EmptyMap, got.ids, "api")),
          raised |-> FALSE]
    ELSE [models |-> setEach(EmptyMap, got.ids, "api"), raised |-> FALSE]

\* discoverModels after the await, on the registry `map`: the new registry
\* and whether the call raised.  Every failure is caught and answered with
\* the fallback list; entries are set into the map, nothing is removed.
discoverModels(map, resp) ==
    LET got == getAvailableModels(resp) IN
    IF got.raised
    THEN [models |-> initializeFallbackModels(map), raised |-> FALSE]
    ELSE IF got.ids = {} /\ ~got.malformed
    THEN [models |-> initializeFallbackModels(map), raised |-> FALSE]
    ELSE IF got.malformed
    THEN [models |-> initializeFallbackModels(setEach(map, got.ids, "api")),
          raised |-> FALSE]
    ELSE [models |-> setEach(map, got.ids, "api"), raised |-> FALSE]

\* createTextToTextModel without the registry check.
createTextToTextModel_NoRegistryCheck(modelId) ==
    IF apiClient = NoClient THEN "ConfigurationError" ELSE "handle"

\* createTextToTextModel with the two checks in the other order.
createTextToTextModel_RegistryCheckFirst(modelId) ==
    IF ~supportsTextToTextModel(modelId) THEN "UnsupportedModelError"
    ELSE IF apiClient = NoClient THEN "ConfigurationError"
    ELSE "handle"

\* createTextToTextModel: the configuration check, then the registry
\* check, then the handle.
createTextToTextModel(modelId) ==
    IF apiClient = NoClient THEN "ConfigurationError"
    ELSE IF ~supportsTextToTextModel(modelId) THEN "UnsupportedModelError"
    ELSE "handle"

getModel(modelId) ==
    IF apiClient = NoClient THEN "ConfigurationError"
    ELSE createTextToTextModel(modelId)

\* isAvailable after the await: testConnection's answer, false if it raised.
isAvailable(resp) ==
    LET r == testConnection(resp) IN IF r = "raised" THEN "false" ELSE r

(* ------------------------------- state -------------------------------- *)

Init ==
    \E v \in Variants, envKey \in EnvKeys :
        LET s == IF v = "seeded" THEN constructorSeeded(envKey)
                 ELSE constructorDiscovering(envKey) IN
        /\ variant = v
        /\ config = s.config
        /\ apiClient = s.apiClient
        /\ discoveredModels = s.models
        /\ handles = {}
        /\ pending = s.pending
        /\ requests = s.requests
        /\ last = Ret(0, "constructor", envKey, "ok", NoResponse, "")

(* ------------------------------ actions ------------------------------- *)

\* configure that builds the client before it checks the key.
ConfigureSeeded_ClientBeforeCheck(key) ==
    /\ variant = "seeded"
    /\ config' = key
    /\ apiClient' = key
    /\ IF key = NoKey
       THEN /\ last' = Ret(0, "configure", key, "ConfigurationError",
                           NoResponse, "")
            /\ UNCHANGED discoveredModels
       ELSE /\ discoveredModels' =
                   IF DOMAIN discoveredModels = {}
                   THEN initializeKnownClaudeModels(discoveredModels)
                   ELSE discoveredModels
            /\ last' = Ret(0, "configure", key, "ok", NoResponse, "")
    /\ UNCHANGED <<variant, handles, pending, requests>>

\* configure of the seeded version: no await, so one step.
ConfigureSeeded(key) ==
    /\ variant = "seeded"
    /\ config' = key
    /\ IF key = NoKey
       THEN /\ last' = Ret(0, "configure", key, "ConfigurationError",
                           NoResponse, "")
            /\ UNCHANGED <<apiClient, discoveredModels>>
       ELSE /\ apiClient' = key
            /\ discoveredModels' =
                   IF DOMAIN discoveredModels = {}
                   THEN initializeKnownClaudeModels(discoveredModels)
                   ELSE discoveredModels
            /\ last' = Ret(0, "configure", key, "ok", NoResponse, "")
    /\ UNCHANGED <<variant, handles, pending, requests>>

\* configure of the discovering version up to its await on discoverModels.
ConfigureDiscovering(key) ==
    /\ variant = "discovering"
    /\ config' = key
    /\ IF key = NoKey
       THEN /\ last' = Ret(0, "configure", key, "ConfigurationError",
                           NoResponse, "")
            /\ UNCHANGED <<apiClient, pending, requests>>
       ELSE /\ CanSend
            /\ apiClient' = key
            /\ pending' = pending \cup
                   {Call(Sent + 1, "discoverModels", "configure", key, "")}
            /\ requests' = [requests EXCEPT !.models = @ + 1]
            /\ last' = Ret(Sent + 1, "configure", key, "pending",
                           NoResponse, "")
    /\ UNCHANGED <<variant, discoveredModels, handles>>

\* GET /models resolves for a suspended discoverModels, which updates the
\* registry; the configure call awaiting it returns, the constructor's
\* .catch swallows whatever the background run raises.
DiscoveryResponse(p, resp) ==
    /\ p \in pending
    /\ p.op = "discoverModels"
    /\ LET r == discoverModels(discoveredModels, resp) IN
       /\ discoveredModels' = r.models
       /\ last' = IF p.origin = "configure"
                  THEN Ret(p.id, "configure", p.arg,
                           IF r.raised THEN "Error" ELSE "ok", resp, "")
                  ELSE Ret(p.id, "backgroundDiscovery", p.arg, "ok", resp, "")
    /\ pending' = pending \ {p}
    /\ UNCHANGED <<variant, config, apiClient, handles, requests>>

Supports(modelId) ==
    /\ last' = Ret(0, "supportsTextToTextModel", modelId,
                   IF supportsTextToTextModel(modelId) THEN "true" ELSE "false",
                   NoResponse, "")
    /\ UNCHANGED <<variant, config, apiClient, discoveredModels, handles,
                   pending, requests>>

\* The handle createTextToTextModel returns is bound to the client and the
\* model id of the moment.
NewHandle(modelId) == [apiClient |-> apiClient, modelId |-> modelId]

HandleRoom(modelId) ==
    \/ NewHandle(modelId) \in handles
    \/ Cardinality(handles) < MaxHandles

CreateTextToTextModel(modelId) ==
    LET r == createTextToTextModel(modelId) IN
    /\ r = "handle" => HandleRoom(modelId)
    /\ handles' = IF r = "handle" THEN handles \cup {NewHandle(modelId)}
                  ELSE handles
    /\ last' = Ret(0, "createTextToTextModel", modelId, r, NoResponse, "")
    /\ UNCHANGED <<variant, config, apiClient, discoveredModels, pending,
                   requests>>

GetModel(modelId) ==
    LET r == getModel(modelId) IN
    /\ r = "handle" => HandleRoom(modelId)
    /\ handles' = IF r = "handle" THEN handles \cup {NewHandle(modelId)}
                  ELSE handles
    /\ last' = Ret(0, "getModel", modelId, r, NoResponse, "")
    /\ UNCHANGED <<variant, config, apiClient, discoveredModels, pending,
                   requests>>

\* isAvailable up to its await: false at once without a client, else
\* testConnection sends GET /models.
IsAvailable ==
    /\ IF apiClient = NoClient
       THEN /\ last' = Ret(0, "isAvailable", "", "false", NoResponse, "")
            /\ UNCHANGED <<pending, requests>>
       ELSE /\ CanSend
            /\ pending' = pending \cup
                   {Call(Sent + 1, "isAvailable", "", "", "")}
            /\ requests' = [requests EXCEPT !.models = @ + 1]
            /\ last' = Ret(Sent + 1, "isAvailable", "", "pending",
                           NoResponse, "")
    /\ UNCHANGED <<variant, config, apiClient, discoveredModels, handles>>

AvailabilityResponse(p, resp) ==
    /\ p \in pending
    /\ p.op = "isAvailable"
    /\ pending' = pending \ {p}
    /\ last' = Ret(p.id, "isAvailable", "", isAvailable(resp), resp, "")
    /\ UNCHANGED <<variant, config, apiClient, discoveredModels, handles,
                   requests>>

\* generate on a handle: the handle passes its own model id to its
\* client's generateText, which sends POST /messages and suspends.
HandleGenerate(h, prompt, options) ==
    /\ h \in handles
    /\ CanSend
    /\ LET request == generateTextRequest(h.modelId, prompt, options) IN
       pending' = pending \cup
           {[Call(Sent + 1, "generateText", "", "", request.model)
               EXCEPT !.prompt = prompt, !.options = options,
                      !.messages = request.messages]}
    /\ requests' = [requests EXCEPT !.messages = @ + 1]
    /\ last' = Ret(Sent + 1, "generate", h.modelId, "pending", NoResponse, "")
    /\ UNCHANGED <<variant, config, apiClient, discoveredModels, handles>>

GenerationResponse(p, resp) ==
    /\ p \in pending
    /\ p.op = "generateText"
    /\ LET s == generateTextResume(p, resp) IN
       /\ pending' = s.pending
       /\ requests' = s.requests
       /\ last' = s.last
    /\ UNCHANGED <<variant, config, apiClient, discoveredModels, handles>>

Next ==
    \/ \E key \in ConfigKeys : ConfigureSeeded(key)
    \/ \E key \in ConfigKeys : ConfigureDiscovering(key)
    \/ \E p \in pending, resp \in ListingResponses : DiscoveryResponse(p, resp)
    \/ \E modelId \in RequestIds : Supports(modelId)
    \/ \E modelId \in RequestIds : CreateTextToTextModel(modelId)
    \/ \E modelId \in RequestIds : GetModel(modelId)
    \/ IsAvailable
    \/ \E p \in pending, resp \in ListingResponses :
           AvailabilityResponse(p, resp)
    \/ \E h \in handles : HandleGenerate(h, "hello", NoOptions)
    \/ \E p \in pending, resp \in GenerationResponses :
           GenerationResponse(p, resp)

Spec == Init /\ [][Next]_vars

\* The generation path on its own, over every prompt and options value:
\* handles are created on the provider as constructed and generate calls
\* are made through them.  Nothing the provider does depends on the prompt
\* or the options, which Next therefore keeps fixed.
GenNext ==
    \/ \E modelId \in RequestIds : CreateTextToTextModel(modelId)
    \/ /\ Sent < MaxGenRequests
       /\ \E h \in handles, prompt \in Prompts, options \in Options :
              HandleGenerate(h, prompt, options)
    \/ \E p \in pending, resp \in GenerationResponses :
           GenerationResponse(p, resp)

GenSpec == Init /\ [][GenNext]_vars

(* ------------------------------- claims ------------------------------- *)

HandleOps == {"createTextToTextModel", "getModel"}

DiscoveryOps == {"configure", "backgroundDiscovery"}

\* The latest step resumed a discoverModels run on a listing response.
DiscoveryRan == last.op \in DiscoveryOps /\ last.resp.kind # "none"

\* C1: on a configured provider, a request for a handle (getModel or
\* createTextToTextModel) for a model id that is not in the registry at the
\* time of the call fails with the unsupported-model error, and the call
\* issues no outbound request: the request counters, the calls in flight
\* and the handles are the same before and after it.
C1_UnsupportedModelRejected ==
    [][\A m \in RequestIds :
          (/\ apiClient # NoClient
           /\ m \notin DOMAIN discoveredModels
           /\ last'.op \in HandleOps
           /\ last'.arg = m)
          => /\ last'.result = "UnsupportedModelError"
             /\ requests' = requests
             /\ pending' = pending
             /\ handles' = handles]_vars

C1_Witness ==
    /\ apiClient # NoClient
    /\ last.op = "getModel"
    /\ last.arg \notin DOMAIN discoveredModels
    /\ last.result = "UnsupportedModelError"
    /\ DOMAIN discoveredModels # {}

\* C2: every generation request that is sent carries a model id that is in
\* the registry at the moment it is sent, also when the handle it is sent
\* through was created before a later discovery run changed the registry.
C2_RequestedModelInRegistry ==
    [][\A p \in pending' \ pending :
          p.op = "generateText" => p.model \in DOMAIN discoveredModels']_vars

\* A request in flight for a fallback-seeded model while the registry also
\* holds entries a discovery run set.
C2_Witness ==
    \E p \in pending :
        /\ p.op = "generateText"
        /\ p.model \in DOMAIN discoveredModels
        /\ discoveredModels[p.model] = "fallback"
        /\ \E id \in DOMAIN discoveredModels : discoveredModels[id] = "api"

\* C3: right after construction with an API key in the environment, before
\* any response has been delivered, supports('claude-3-5-sonnet-latest') is
\* true and the registry is not empty.
C3_SeededAtConstruction ==
    (last.op = "constructor" /\ last.arg # NoKey)
    => /\ supportsTextToTextModel("claude-3-5-sonnet-latest")
       /\ DOMAIN discoveredModels # {}

\* C4: after a discovery run that received a well-formed, non-empty model
\* list, the ids of the registry are exactly the ids of that list.
C4_DiscoveryReplacesRegistry ==
    (/\ DiscoveryRan
     /\ last.resp.kind = "ok"
     /\ last.resp.ids # {}
     /\ ~last.resp.malformed)
    => DOMAIN discoveredModels = last.resp.ids

\* C5: after a discovery run that received an empty model list, or whose
\* listing request failed, the ids of the registry are exactly the three
\* ids of the fallback list.
C5_FallbackReplacesRegistry ==
    (/\ DiscoveryRan
     /\ \/ last.resp.kind = "error"
        \/ last.resp.kind = "ok" /\ last.resp.ids = {} /\ ~last.resp.malformed)
    => DOMAIN discoveredModels = fallbackModels

\* C6: a configure call that supplies an API key never raises, whatever
\* the listing request resolves to, and the registry is not empty when the
\* call returns; the discovery run the constructor starts never raises to
\* anyone either.
C6_ConfigureNeverRaises ==
    /\ (last.op = "configure" /\ last.arg # NoKey)
       => /\ last.result \in {"pending", "ok"}
          /\ last.result = "ok" => DOMAIN discoveredModels # {}
    /\ last.op = "backgroundDiscovery"
       => last.result = "ok" /\ DOMAIN discoveredModels # {}

C6_Witness ==
    /\ last.op = "configure"
    /\ last.result = "ok"
    /\ last.resp.kind = "error"

\* C7: while the discovery run started by the constructor has not
\* completed, the registry holds the known-model set, so supports and
\* handle creation for a known model id succeed.
C7_KnownSetDuringBackgroundDiscovery ==
    (\E p \in pending : p.op = "discoverModels" /\ p.origin = "constructor")
    => /\ knownModels \subseteq DOMAIN discoveredModels
       /\ (last.op \in HandleOps /\ last.arg \in knownModels)
          => last.result = "handle"
       /\ (last.op = "supportsTextToTextModel" /\ last.arg \in knownModels)
          => last.result = "true"

C9_UnconfiguredRejected ==
    [][(apiClient = NoClient /\ last'.op \in HandleOps)
       => /\ last'.result = "ConfigurationError"
          /\ requests' = requests
          /\ pending' = pending
          /\ handles' = handles]_vars

C9_Witness ==
    /\ apiClient = NoClient
    /\ last.op = "createTextToTextModel"
    /\ last.result = "ConfigurationError"
    /\ ~supportsTextToTextModel(last.arg)

\* C10: the availability probe never raises; without a transport it
\* answers false and issues no request; it answers false whenever the
\* listing request failed and true only when it succeeded.
C10_ProbeNeverRaises ==
    [][last'.op = "isAvailable"
       => /\ last'.result \in {"pending", "true", "false"}
          /\ apiClient = NoClient
             => (last'.result = "false" /\ requests' = requests
                 /\ pending' = pending)
          /\ last'.resp.kind = "error" => last'.result = "false"
          /\ last'.result = "true" => last'.resp.kind = "ok"]_vars

C10_Witness ==
    /\ last.op = "isAvailable"
    /\ last.result = "false"
    /\ last.resp.kind = "error"

\* A system instruction is given: a systemPrompt that is not empty.
HasInstruction(options) == options.given /\ options.systemPrompt # ""

\* C11: the message list of the request a generate call sends is, when a
\* system instruction is given, the system-role message with that
\* instruction followed by the user-role message with the prompt, and
\* otherwise the user-role message alone; the user message is last and
\* occurs once.
C11_MessageList ==
    \A p \in pending :
        p.op = "generateText"
        => LET user == [role |-> "user", content |-> p.prompt]
               system == [role |-> "system",
                          content |-> p.options.systemPrompt] IN
           /\ HasInstruction(p.options) => p.messages = <<system, user>>
           /\ ~HasInstruction(p.options) => p.messages = <<user>>
           /\ p.messages[Len(p.messages)] = user
           /\ Cardinality({i \in 1..Len(p.messages) :
                               p.messages[i].role = "user"}) = 1

C11_Witness ==
    \E p \in pending :
        /\ p.op = "generateText"
        /\ p.options.systemPrompt = "S"
        /\ p.prompt = "hello"
        /\ Len(p.messages) = 2

\* C12: for a response with one or more content segments, generate
\* returns the segments' texts concatenated in the order of the response,
\* with no separator and none dropped: 'ab','cd' give exactly 'abcd'.
C12_TextIsConcatenation ==
    (/\ last.op = "generate"
     /\ last.resp.kind = "ok"
     /\ Len(last.resp.content) >= 1)
    => LET c == last.resp.content IN
       /\ last.result = "returned"
       /\ Len(c) = 1 => last.text = c[1]
       /\ Len(c) = 2 => last.text = c[1] \o c[2]
       /\ Len(c) = 3 => last.text = c[1] \o c[2] \o c[3]
       /\ c = <<"ab", "cd">> => last.text = "abcd"
       /\ c = <<"cd", "ab", "ef">> => last.text = "cdabef"

C12_Witness ==
    /\ last.op = "generate"
    /\ last.result = "returned"
    /\ last.resp.content = <<"ab", "cd">>
    /\ last.text = "abcd"

\* C13: when the request succeeds but the response has no content
\* segments, or no content field, generate raises the empty-response error;
\* it returns only for a response with at least one segment, so never an
\* empty string for an empty response.
C13_EmptyResponseRaises ==
    last.op = "generate"
    => /\ (\/ last.resp.kind = "nocontent"
           \/ last.resp.kind = "ok" /\ last.resp.content = <<>>)
          => last.result = "EmptyResponseError"
       /\ last.result = "returned"
          => last.resp.kind = "ok" /\ Len(last.resp.content) >= 1

C13_Witness ==
    /\ last.op = "generate"
    /\ last.result = "EmptyResponseError"
    /\ last.resp.kind = "ok"
    /\ last.resp.content = <<>>

C15_FailedConfigureFrame ==
    [][(last'.op = "configure" /\ last'.arg = NoKey)
       => /\ last'.result = "ConfigurationError"
          /\ apiClient' = apiClient
          /\ discoveredModels' = discoveredModels
          /\ requests' = requests
          /\ pending' = pending
          /\ handles' = handles]_vars

\* A failed configure on a provider that has a transport, a registry and
\* a handle.
C15_Witness ==
    /\ last.op = "configure"
    /\ last.result = "ConfigurationError"
    /\ apiClient # NoClient
    /\ DOMAIN discoveredModels # {}
    /\ handles # {}

====
